---- MODULE Spec2Model ----
(***************************************************************************)
(* A model of markov-strings (database-backed): the corpus builder         *)
(* (addData / buildCorpus), the generator (generate), export and import,   *)
(* over a store of MarkovOptions, MarkovRoot, CorpusEntry, MarkovFragment  *)
(* and MarkovInputData rows.                                               *)
(*                                                                         *)
(* A JavaScript string is a sequence of one-character strings, so that     *)
(* split(' '), join(' ') and trim() are computed, not assumed.             *)
(***************************************************************************)
EXTENDS Integers, Sequences, FiniteSets, TLC

\* ------------------------------------------------------------------ bounds

\* Total number of items the addData calls of one behaviour may ingest.
MaxItems == 2

\* Largest explicit maxTries argument passed to generate.
MaxTriesArg == 2

\* ------------------------------------------------------- program constants

\* defaultOptions.stateSize
DefaultStateSize == 2

\* generate: options.maxTries ? options.maxTries : 10
DefaultMaxTries == 10

\* ----------------------------------------------------------------- strings

SP == " "

\* The JavaScript values undefined / null, for a string-valued slot.
Undefined == "undefined"

\* No MarkovRoot (a null foreign key, or an instance that is not connected).
NoRoot == "none"

\* No CorpusEntry (a null foreign key); generated ids start at 1.
NoEntry == 0

RECURSIVE FirstSpace(_, _)
\* Index of the first space of s at or after position i, 0 when there is none.
FirstSpace(s, i) ==
  IF i > Len(s) THEN 0
  ELSE IF s[i] = SP THEN i
  ELSE FirstSpace(s, i + 1)

RECURSIVE Split(_)
\* String.prototype.split(' '): the pieces between single spaces; never empty.
Split(s) ==
  LET k == FirstSpace(s, 1)
  IN IF k = 0 THEN <<s>>
     ELSE <<SubSeq(s, 1, k - 1)>> \o Split(SubSeq(s, k + 1, Len(s)))

RECURSIVE Join(_)
\* Array.prototype.join(' ').
Join(ws) ==
  IF ws = <<>> THEN <<>>
  ELSE IF Len(ws) = 1 THEN ws[1]
  ELSE ws[1] \o <<SP>> \o Join(Tail(ws))

RECURSIVE TrimStart(_)
TrimStart(s) ==
  IF s # <<>> /\ s[1] = SP THEN TrimStart(Tail(s)) ELSE s

RECURSIVE TrimEnd(_)
TrimEnd(s) ==
  IF s # <<>> /\ s[Len(s)] = SP THEN TrimEnd(SubSeq(s, 1, Len(s) - 1)) ELSE s

\* String.prototype.trim().
Trim(s) == TrimEnd(TrimStart(s))

\* lodash slice(array, start, end): 0-based, end exclusive, negative start
\* counted from the end.
Slice(arr, start, end) ==
  LET n  == Len(arr)
      s1 == IF start < 0 THEN (IF -start > n THEN 0 ELSE n + start) ELSE start
      e1 == IF end > n THEN n ELSE end
      e2 == IF e1 < 0 THEN e1 + n ELSE e1
  IN IF n = 0 \/ s1 >= e2 THEN <<>> ELSE SubSeq(arr, s1 + 1, e2)

\* ------------------------------------------------------------------ inputs

\* The sentences handed to addData, each given by its words; an empty word
\* is what a doubled, leading or trailing space splits into.
Lines ==
  { Join(ws) : ws \in
      { <<<<"a">>>>,
        <<<<"b">>, <<"a">>>>,
        <<<<"a">>, <<"a">>>>,
        <<<<"a">>, <<"b">>, <<>>>>,
        <<<<"a">>, <<"b">>, <<"a">>>>,
        <<<<"a">>, <<"b">>, <<"a">>, <<"b">>>>,
        <<<<"a">>, <<"b">>, <<"b">>, <<"a">>>>,
        <<<<"a">>, <<"b">>, <<"a">>, <<>>>> } }

\* The sentences of the export and import scenarios.
IOLines ==
  { Join(ws) : ws \in
      { <<<<"a">>, <<"b">>>>,
        <<<<"a">>, <<"b">>, <<"a">>>>,
        <<<<"a">>, <<"b">>, <<"a">>, <<"b">>>> } }

\* Caller-supplied payloads (item.custom).
Customs == { Undefined, "x" }

\* The ids a caller constructs an instance with (Undefined: the default).
Ids == { Undefined, "1" }

\* The stateSize options of the constructor; 0 stands for "not given".
StateSizeOpts == { 0, 1 }

\* The elements of rawData: bare strings, objects with a "string" property
\* (and no custom payload), and an object without one.
RawItems ==
  [kind : {"str"}, string : Lines, custom : {Undefined}]
    \cup [kind : {"obj"}, string : Lines, custom : {Undefined}]
    \cup [kind : {"nostr"}, string : {<<>>}, custom : {Undefined}]

\* The elements of rawData in the export and import scenarios: objects
\* with a "string" property, with and without a custom payload.
IOItems == [kind : {"obj"}, string : IOLines, custom : Customs]

\* The texts of the legacy payloads.
AB == Join(<< <<"a">>, <<"b">> >>)

CD == Join(<< <<"c">>, <<"d">> >>)

ABCD == Join(<< <<"a">>, <<"b">>, <<"c">>, <<"d">> >>)

\* Legacy refs: {text: "a b c d"}, {string: "a b c d"} and
\* {string: "a b c d", k: "x"}.
RefText == { << "text", ABCD >> }

RefPlain == { << "string", ABCD >> }

RefWithK == { << "string", ABCD >>, << "k", << "x" >> >> }

\* A legacy fragment {words, refs}.
V3Fragment(words, importRefs) == [words |-> words, refs |-> importRefs]

\* A legacy payload {options: {stateSize}, startWords, endWords, corpus},
\* its corpus object given as the list of its entries.
V3Data(stateSize, startWords, endWords, corpus) ==
  [options |-> [stateSize |-> stateSize], startWords |-> startWords,
   endWords |-> endWords, corpus |-> corpus]

\* The legacy payloads a caller builds: the corpus
\* {"a b": [{words: "c d", refs: [{text: "a b c d"}]}]} alone; the same
\* with the key "string"; a payload with start words, end words and custom
\* keys; one whose corpus lists a fragment twice under one key and has a
\* second key, at stateSize 1.
V3Payloads ==
  { V3Data(2, <<>>, <<>>,
           << [key |-> AB, fragments |-> << V3Fragment(CD, << RefText >>) >>] >>),
    V3Data(2, <<>>, <<>>,
           << [key |-> AB, fragments |-> << V3Fragment(CD, << RefPlain >>) >>] >>),
    V3Data(2, << V3Fragment(AB, << RefPlain >>) >>,
              << V3Fragment(CD, << RefWithK >>) >>,
           << [key |-> AB,
               fragments |-> << V3Fragment(CD, << RefWithK, RefPlain >>) >>] >>),
    V3Data(1, << V3Fragment(<<"a">>, << RefPlain >>) >>,
              << V3Fragment(<<"b">>, << RefPlain >>) >>,
           << [key |-> <<"a">>,
               fragments |-> << V3Fragment(<<"b">>, << RefPlain >>),
                                V3Fragment(<<"b">>, << RefWithK >>) >>],
              [key |-> <<"b">>,
               fragments |-> << V3Fragment(<<"a">>, << RefText >>) >>] >>) }

\* ------------------------------------------------------------------- state

VARIABLES
  options,    \* MarkovOptions rows   [id, stateSize]
  roots,      \* MarkovRoot rows      [id, options]
  entries,    \* CorpusEntry rows     [id, markov, block]
  fragments,  \* MarkovFragment rows  [id, words, startWordMarkov, endWordMarkov, corpusEntry]
  refs,       \* MarkovInputData rows [id, fragment, string, custom]
  inst,       \* the Markov instance  [id, stateSize, db, dbStateSize]
  connected,  \* an open connection exists
  exported,   \* the value the last export() returned
  legacy,     \* the legacy-shape payload object the caller holds
  out,        \* what the last call reported: its name and outcome
  used,       \* number of items and payloads taken in so far (bounded by MaxItems)
  ingested,   \* history: the <<root, string, custom>> items addData fully ingested
  running     \* the addData calls under way, step by step: position and locals

vars == << options, roots, entries, fragments, refs, inst, connected,
           exported, legacy, out, used, ingested, running >>

store == << options, roots, entries, fragments, refs >>

\* The three tables buildCorpus reads and writes, as one value.
Tables == [entries |-> entries, fragments |-> fragments, refs |-> refs]

\* The id a generated primary key gives the next row of a table.
NextId(rows) ==
  IF rows = {} THEN 1
  ELSE 1 + (CHOOSE m \in {r.id : r \in rows} : \A r \in rows : r.id <= m)

\* A builder that forgets the custom payload of the item.
SaveRefWithoutCustom(st, fid, item) ==
  [st EXCEPT !.refs = @ \cup
     { [id |-> NextId(st.refs), fragment |-> fid,
        string |-> item.string, custom |-> Undefined] }]

\* new MarkovInputData() for `item`, attached to fragment `fid`, saved.
SaveRef(st, fid, item) ==
  [st EXCEPT !.refs = @ \cup
     { [id |-> NextId(st.refs), fragment |-> fid,
        string |-> item.string, custom |-> item.custom] }]

\* new MarkovFragment() with the given words and parent, saved.
SaveFragment(st, words, startRoot, endRoot, entry) ==
  [st EXCEPT !.fragments = @ \cup
     { [id |-> NextId(st.fragments), words |-> words,
        startWordMarkov |-> startRoot, endWordMarkov |-> endRoot,
        corpusEntry |-> entry] }]

\* new CorpusEntry() with the given block, owned by `root`, saved.
SaveEntry(st, root, block) ==
  [st EXCEPT !.entries = @ \cup
     { [id |-> NextId(st.entries), markov |-> root, block |-> block] }]

\* A builder that never recognises a start or end fragment it already has:
\* it creates a new fragment, with its reference, every time.
StartOrEndAlwaysNew(st, olds, words, startRoot, endRoot, item) ==
  { SaveRef(SaveFragment(st, words, startRoot, endRoot, NoEntry),
            NextId(st.fragments), item) }

\* buildCorpus, the part shared by "Start words" and "End words": the
\* fragment found gets a reference only if it has none at all; otherwise a
\* fragment and a reference are created.  findOne may return any match.
StartOrEnd(st, olds, words, startRoot, endRoot, item) ==
  IF olds # {}
    THEN { IF \E r \in st.refs : r.fragment = old.id
             THEN st
             ELSE SaveRef(st, old.id, item) : old \in olds }
    ELSE { SaveRef(SaveFragment(st, words, startRoot, endRoot, NoEntry),
                   NextId(st.fragments), item) }

\* A builder whose start-words lookup finds nothing.
StartWordsNoLookup(st, root, stateSize, item) ==
  LET start == Join(Slice(Split(item.string), 0, stateSize))
  IN { SaveRef(SaveFragment(st, start, root, NoRoot, NoEntry),
               NextId(st.fragments), item) }

\* buildCorpus, region "Start words".
StartWords(st, root, stateSize, item) ==
  LET words == Split(item.string)
      start == Join(Slice(words, 0, stateSize))
      olds  == { f \in st.fragments :
                   f.startWordMarkov = root /\ f.words = start }
  IN StartOrEnd(st, olds, start, root, NoRoot, item)

\* A builder that takes one word too few for the end words.
EndWordsShort(st, root, stateSize, item) ==
  LET words == Split(item.string)
      end   == Join(Slice(words, Len(words) - stateSize + 1, Len(words)))
      olds  == { f \in st.fragments :
                   f.endWordMarkov = root /\ f.words = end }
  IN IF olds # {}
       THEN { st }
       ELSE { SaveRef(SaveFragment(st, end, NoRoot, root, NoEntry),
                      NextId(st.fragments), item) }

\* buildCorpus, region "End words".
EndWords(st, root, stateSize, item) ==
  LET words == Split(item.string)
      end   == Join(Slice(words, Len(words) - stateSize, Len(words)))
      olds  == { f \in st.fragments :
                   f.endWordMarkov = root /\ f.words = end }
  IN StartOrEnd(st, olds, end, NoRoot, root, item)


\* A loop body whose next window starts one word after curr starts: the
\* windows of consecutive states overlap.
CorpusStepOverlapping(st, root, stateSize, item, i) ==
  LET words  == Split(item.string)
      curr   == Join(Slice(words, i, i + stateSize))
      next   == Join(Slice(words, i + 1, i + 1 + stateSize))
      blocks == { e \in st.entries : e.markov = root /\ e.block = curr }
  IN IF next = <<>> \/ Len(Split(next)) # stateSize
       THEN { st }
     ELSE IF blocks # {}
       THEN UNION {
              LET olds == { f \in st.fragments :
                              f.corpusEntry = block.id /\ f.words = next }
              IN IF olds # {}
                   THEN { SaveRef(st, oldObj.id, item) : oldObj \in olds }
                   ELSE { SaveRef(SaveFragment(st, next, NoRoot, NoRoot, block.id),
                                  NextId(st.fragments), item) }
              : block \in blocks }
     ELSE { SaveRef(SaveFragment(SaveEntry(st, root, curr),
                                 next, NoRoot, NoRoot, NextId(st.entries)),
                    NextId(st.fragments), item) }

\* buildCorpus, region "Corpus generation", the loop body for index i.
CorpusStep(st, root, stateSize, item, i) ==
  LET words  == Split(item.string)
      curr   == Join(Slice(words, i, i + stateSize))
      next   == Join(Slice(words, i + stateSize, i + stateSize * 2))
      blocks == { e \in st.entries : e.markov = root /\ e.block = curr }
  IN IF next = <<>> \/ Len(Split(next)) # stateSize
       THEN { st }
     ELSE IF blocks # {}
       THEN UNION {
              LET olds == { f \in st.fragments :
                              f.corpusEntry = block.id /\ f.words = next }
              IN IF olds # {}
                   THEN { SaveRef(st, oldObj.id, item) : oldObj \in olds }
                   ELSE { SaveRef(SaveFragment(st, next, NoRoot, NoRoot, block.id),
                                  NextId(st.fragments), item) }
              : block \in blocks }
     ELSE { SaveRef(SaveFragment(SaveEntry(st, root, curr),
                                 next, NoRoot, NoRoot, NextId(st.entries)),
                    NextId(st.fragments), item) }

RECURSIVE CorpusGenerationShort(_, _, _, _, _)
\* A builder whose loop stops one index early: i < words.length - 2.
CorpusGenerationShort(sts, root, stateSize, item, i) ==
  IF i < Len(Split(item.string)) - 2
    THEN CorpusGenerationShort(
           UNION { CorpusStep(st, root, stateSize, item, i) : st \in sts },
           root, stateSize, item, i + 1)
    ELSE sts

RECURSIVE CorpusGeneration(_, _, _, _, _)
\* buildCorpus, region "Corpus generation": for (i = 0; i < words.length - 1; i += 1).
CorpusGeneration(sts, root, stateSize, item, i) ==
  IF i < Len(Split(item.string)) - 1
    THEN CorpusGeneration(
           UNION { CorpusStep(st, root, stateSize, item, i) : st \in sts },
           root, stateSize, item, i + 1)
    ELSE sts

\* buildCorpus, the body of the loop over the items: the stores one item
\* can leave.
BuildItem(st, root, stateSize, item) ==
  LET afterStart == StartWords(st, root, stateSize, item)
      afterEnd   == UNION { EndWords(s, root, stateSize, item) : s \in afterStart }
  IN CorpusGeneration(afterEnd, root, stateSize, item, 0)

RECURSIVE BuildCorpus(_, _, _, _, _)
\* buildCorpus from item k on.  An item whose `string` is not a string makes
\* line.split throw a TypeError; what was written before it stays written,
\* and `done` counts the items that were processed.
BuildCorpus(st, root, stateSize, data, k) ==
  IF k > Len(data) THEN { [st |-> st, err |-> "none", done |-> k - 1] }
  ELSE IF ~data[k].ok THEN { [st |-> st, err |-> "TypeError", done |-> k - 1] }
  ELSE UNION { BuildCorpus(s, root, stateSize, data, k + 1) :
                 s \in BuildItem(st, root, stateSize, data[k]) }

\* addData, "Format data if necessary": only rawData[0] decides the shape.
\* With a bare string first, every element e becomes {string: e}; with an
\* object owning "string" first, the list is used as it is.
FormatData(rawData) ==
  IF rawData = <<>> THEN [err |-> "TypeError", input |-> <<>>]
  ELSE IF rawData[1].kind = "str"
    THEN [err |-> "none",
          input |-> [k \in 1..Len(rawData) |->
                      [ok |-> rawData[k].kind = "str",
                       string |-> rawData[k].string, custom |-> Undefined]]]
  ELSE IF rawData[1].kind = "obj"
    THEN [err |-> "none",
          input |-> [k \in 1..Len(rawData) |->
                      [ok |-> rawData[k].kind = "obj",
                       string |-> rawData[k].string, custom |-> rawData[k].custom]]]
  ELSE [err |-> "InvalidInput", input |-> <<>>]

\* ---------------------------------------------------------------- generate

\* The filters a caller passes to generate: none, one that accepts every
\* result, one that rejects every result, one that accepts from the second
\* try on (it reads result.tries).
Filters == { "none", "accept", "reject", "second" }

\* generate's maxTries option: <<>> when omitted, <<n>> when given.
MaxTriesOpts == { <<>> } \cup { <<n>> : n \in 1..MaxTriesArg }

\* options.filter(result), for a filter that is a function.
FilterAccepts(filter, result) ==
  CASE filter = "accept" -> TRUE
    [] filter = "reject" -> FALSE
    [] filter = "second" -> result.tries >= 2

\* sampleFragment(root): the start fragments RANDOM() chooses among.
SampleStart(st, root) ==
  { f \in st.fragments : f.startWordMarkov = root }


\* A sample among the child fragments of every entry.
SampleChildOfAny(st, entry) ==
  { f \in st.fragments : f.corpusEntry # NoEntry }

\* sampleFragment(entry): the child fragments RANDOM() chooses among.
SampleChild(st, entry) ==
  { f \in st.fragments : f.corpusEntry = entry.id }

\* CorpusEntry.findOne({ where: { block } }): the rows findOne may return.
FindEntryByBlock(st, root, block) ==
  { e \in st.entries : e.block = block }

\* MarkovFragment.findOne({ endWordMarkov: this.db, words }) finds a row.
IsEndWords(st, root, words) ==
  \E f \in st.fragments : f.endWordMarkov = root /\ f.words = words

\* score += state.words.length - 1, state.words being a string.
ScoreStep(words) == Len(words) - 1


RECURSIVE BuildSentenceOneMore(_, _, _, _, _, _)
\* An inner loop that runs while innerTries <= maxTries: one step more.
BuildSentenceOneMore(st, root, maxTries, arr, score, innerTries) ==
  IF innerTries > maxTries
    THEN { [arr |-> arr, score |-> score, ended |-> FALSE] }
  ELSE
    LET block == arr[Len(arr)]
        found == FindEntryByBlock(st, root, block.words)
    IN IF found = {}
         THEN { [arr |-> arr, score |-> score, ended |-> FALSE] }
       ELSE UNION {
         IF SampleChild(st, entry) = {}
           THEN { [arr |-> arr, score |-> score, ended |-> FALSE] }
           ELSE UNION {
             IF IsEndWords(st, root, state.words)
               THEN { [arr |-> Append(arr, state),
                       score |-> score + ScoreStep(state.words),
                       ended |-> TRUE] }
               ELSE BuildSentenceOneMore(st, root, maxTries, Append(arr, state),
                                         score + ScoreStep(state.words), innerTries + 1)
             : state \in SampleChild(st, entry) }
         : entry \in found }


RECURSIVE BuildSentenceEndAtStart(_, _, _, _, _, _)
\* An inner loop that first tests whether the last fragment of arr, the
\* start fragment included, is an end fragment.
BuildSentenceEndAtStart(st, root, maxTries, arr, score, innerTries) ==
  IF IsEndWords(st, root, arr[Len(arr)].words)
    THEN { [arr |-> arr, score |-> score, ended |-> TRUE] }
  ELSE IF innerTries >= maxTries
    THEN { [arr |-> arr, score |-> score, ended |-> FALSE] }
  ELSE
    LET block == arr[Len(arr)]
        found == FindEntryByBlock(st, root, block.words)
    IN IF found = {}
         THEN { [arr |-> arr, score |-> score, ended |-> FALSE] }
       ELSE UNION {
         IF SampleChild(st, entry) = {}
           THEN { [arr |-> arr, score |-> score, ended |-> FALSE] }
           ELSE UNION {
             BuildSentenceEndAtStart(st, root, maxTries, Append(arr, state),
                                     score + ScoreStep(state.words), innerTries + 1)
             : state \in SampleChild(st, entry) }
         : entry \in found }

RECURSIVE BuildSentence(_, _, _, _, _, _)
\* generate, the inner loop from innerTries on: every way it can leave
\* arr, score and ended.
BuildSentence(st, root, maxTries, arr, score, innerTries) ==
  IF innerTries >= maxTries
    THEN { [arr |-> arr, score |-> score, ended |-> FALSE] }
  ELSE
    LET block == arr[Len(arr)]
        found == FindEntryByBlock(st, root, block.words)
    IN IF found = {}
         THEN { [arr |-> arr, score |-> score, ended |-> FALSE] }
       ELSE UNION {
         IF SampleChild(st, entry) = {}
           THEN { [arr |-> arr, score |-> score, ended |-> FALSE] }
           ELSE UNION {
             IF IsEndWords(st, root, state.words)
               THEN { [arr |-> Append(arr, state),
                       score |-> score + ScoreStep(state.words),
                       ended |-> TRUE] }
               ELSE BuildSentence(st, root, maxTries, Append(arr, state),
                                  score + ScoreStep(state.words), innerTries + 1)
             : state \in SampleChild(st, entry) }
         : entry \in found }

\* arr.map((o) => o.words).join(' ').trim()
Sentence(arr) == Trim(Join([k \in 1..Len(arr) |-> arr[k].words]))

\* MarkovInputData.find({ fragment: { id: In(arr.map((f) => f.id)) } })
FindRefs(st, arr) ==
  { r \in st.refs : \E k \in 1..Len(arr) : r.fragment = arr[k].id }

\* A result that numbers the attempts from 0.
ResultZeroBased(st, attempt, tries) ==
  [string |-> Sentence(attempt.arr), score |-> attempt.score,
   refs |-> FindRefs(st, attempt.arr), tries |-> tries - 1]

\* The result object of one attempt.
Result(st, attempt, tries) ==
  [string |-> Sentence(attempt.arr), score |-> attempt.score,
   refs |-> FindRefs(st, attempt.arr), tries |-> tries]

\* What generate reports: the error thrown ("none": it returned `result`),
\* the number of tries the exhausted error names, and, as history, the
\* arguments, the number of attempts started, the number of filter calls,
\* the returned chain and the longest chain any attempt built.
Generated(err, arg, filter, result, reported, attempts, calls, arr) ==
  [op |-> "generate", err |-> err, maxTries |-> arg, filter |-> filter,
   result |-> result, reported |-> reported, attempts |-> attempts,
   filterCalls |-> calls, arr |-> arr]

NoResult == [string |-> <<>>, score |-> 0, refs |-> {}, tries |-> 0]

\* An error message that names the loop counter itself.
ReportedTriesRaw(tries) == tries

\* `Failed to build a sentence after ${tries - 1} tries`
ReportedTries(tries) == tries - 1

RECURSIVE GenerateLoopFilterFirst(_, _, _, _, _, _, _)
\* An outer loop that tests `!options.filter(result) || !ended`: it calls
\* the filter on every candidate, ended or not.
GenerateLoopFilterFirst(st, root, arg, maxTries, filter, tries, calls) ==
  IF calls = {} THEN {}
  ELSE IF tries > maxTries
    THEN { Generated("Exhausted", arg, filter, NoResult, ReportedTries(tries), tries - 1, c, <<>>)
           : c \in calls }
  ELSE IF SampleStart(st, root) = {}
    THEN { Generated("TypeError", arg, filter, NoResult, 0, tries, c, <<>>)
           : c \in calls }
  ELSE
    LET attempts == UNION { BuildSentence(st, root, maxTries, <<s>>, 0, 0)
                            : s \in SampleStart(st, root) }
        called   == IF filter = "none" THEN 0 ELSE 1
        accepted == { a \in attempts :
                        a.ended /\ (filter = "none"
                                     \/ FilterAccepts(filter, Result(st, a, tries))) }
        further  == IF \E a \in attempts : a \notin accepted
                      THEN { c + called : c \in calls } ELSE {}
    IN { Generated("none", arg, filter, Result(st, a, tries), 0, tries, c + called,
                   [k \in 1..Len(a.arr) |-> a.arr[k].id])
         : a \in accepted, c \in calls }
       \cup GenerateLoopFilterFirst(st, root, arg, maxTries, filter, tries + 1, further)

RECURSIVE GenerateLoop(_, _, _, _, _, _, _)
\* generate, the outer loop from `tries` on, `calls` being the numbers of
\* filter calls the earlier attempts can have made.
GenerateLoop(st, root, arg, maxTries, filter, tries, calls) ==
  IF calls = {} THEN {}
  ELSE IF tries > maxTries
    THEN { Generated("Exhausted", arg, filter, NoResult, ReportedTries(tries), tries - 1, c, <<>>)
           : c \in calls }
  ELSE IF SampleStart(st, root) = {}
    \* arr = [undefined]: block.words throws a TypeError
    THEN { Generated("TypeError", arg, filter, NoResult, 0, tries, c, <<>>)
           : c \in calls }
  ELSE
    LET attempts == UNION { BuildSentence(st, root, maxTries, <<s>>, 0, 0)
                            : s \in SampleStart(st, root) }
        called   == IF filter = "none" THEN 0 ELSE 1
        accepted == { a \in attempts :
                        a.ended /\ (filter = "none"
                                     \/ FilterAccepts(filter, Result(st, a, tries))) }
        rejected == { a \in attempts : a.ended /\ a \notin accepted }
        further  == (IF \E a \in attempts : ~a.ended THEN calls ELSE {})
                      \cup (IF rejected # {} THEN { c + 1 : c \in calls } ELSE {})
    IN { Generated("none", arg, filter, Result(st, a, tries), 0, tries, c + called,
                   [k \in 1..Len(a.arr) |-> a.arr[k].id])
         : a \in accepted, c \in calls }
       \cup GenerateLoop(st, root, arg, maxTries, filter, tries + 1, further)


\* A default applied only when the option is omitted (options.maxTries ?? 10).
EffectiveMaxTriesIfOmitted(arg) ==
  IF arg = <<>> THEN DefaultMaxTries ELSE arg[1]

\* const maxTries = options.maxTries ? options.maxTries : 10
EffectiveMaxTries(arg) ==
  IF arg = <<>> \/ arg[1] = 0 THEN DefaultMaxTries ELSE arg[1]

\* A size that counts the start fragments of the root, not its entries.
CorpusSizeOfStartWords(st, root) ==
  Cardinality({ f \in st.fragments : f.startWordMarkov = root })

\* CorpusEntry.count({ markov: this.db })
CorpusSize(st, root) == Cardinality({ e \in st.entries : e.markov = root })

\* generate(options): every outcome the random samples allow.
GenerateOutcomes(st, root, arg, filter) ==
  IF CorpusSize(st, root) <= 0
    THEN { Generated("EmptyCorpus", arg, filter, NoResult, 0, 0, 0, <<>>) }
    ELSE GenerateLoop(st, root, arg, EffectiveMaxTries(arg), filter, 1, {0})

\* ------------------------------------------------------- export and import

\* An exported fragment: the row with its refs relation loaded.
ExportFragment(f) ==
  [id |-> f.id, words |-> f.words,
   refs |-> { [id |-> r.id, string |-> r.string, custom |-> r.custom]
              : r \in { x \in refs : x.fragment = f.id } }]

\* MarkovRoot.findOneOrFail with the relations corpus, corpus.fragments,
\* corpus.fragments.refs, startWords, startWords.refs, endWords,
\* endWords.refs and options.
ExportRoot(db) ==
  [id |-> db.id,
   options |-> CHOOSE o \in options : o.id = db.options,
   startWords |-> { ExportFragment(f) : f \in { x \in fragments : x.startWordMarkov = db.id } },
   endWords |-> { ExportFragment(f) : f \in { x \in fragments : x.endWordMarkov = db.id } },
   corpus |-> { [id |-> e.id, block |-> e.block,
                 fragments |-> { ExportFragment(f)
                                 : f \in { x \in fragments : x.corpusEntry = e.id } }]
                : e \in { x \in entries : x.markov = db.id } }]

\* Nothing was exported yet.
NoExport == [id |-> NoRoot]

\* save() of a row that carries its primary key: the row takes the place of
\* the stored row with that key, if there is one.
Upsert(rows, row) == { r \in rows : r.id # row.id } \cup { row }

\* The fragments of an imported list, as rows with the given parent.
ImportFragments(importFragments, startRoot, endRoot, entry) ==
  { [id |-> f.id, words |-> f.words, startWordMarkov |-> startRoot,
     endWordMarkov |-> endRoot, corpusEntry |-> entry] : f \in importFragments }

\* The references of an imported list of fragments, as rows.
ImportRefs(importFragments) ==
  UNION { { [id |-> r.id, fragment |-> f.id, string |-> r.string, custom |-> r.custom]
            : r \in f.refs } : f \in importFragments }

RECURSIVE UpsertAll(_, _)
\* save() of a list of rows that carry their primary keys.
UpsertAll(rows, new) ==
  IF new = {} THEN rows
  ELSE LET r == CHOOSE x \in new : TRUE
       IN UpsertAll(Upsert(rows, r), new \ {r})

\* ----------------------------------------------------------- legacy import

\* A legacy ref is an object: the set of its <<key, value>> pairs.  A
\* MarkovInputData row made from it has a string that is undefined when the
\* object has no "string" key, and a custom column that is left unset when
\* the object has no other key.
NoString == << Undefined >>

NoCustom == { << Undefined >> }

\* const { string } = ref
RefString(ref) ==
  IF \E p \in ref : p[1] = "string"
    THEN (CHOOSE p \in ref : p[1] = "string")[2]
    ELSE NoString

\* delete customData.string: the object that is left, which is ref itself.
DeleteString(ref) == { p \in ref : p[1] # "string" }

\* An import that forgets to delete the "string" key from the custom data.
RefCustomWithString(ref) == ref

\* if (Object.keys(customData).length) markovInputData.custom = customData
RefCustom(ref) ==
  IF DeleteString(ref) = {} THEN NoCustom ELSE DeleteString(ref)

RECURSIVE SaveV3Refs(_, _, _, _)
\* extractImportV3Fragments, importFragment.refs.map: one MarkovInputData
\* per ref of the list, from ref k on, saved in list order.
SaveV3Refs(st, fid, importRefs, k) ==
  IF k > Len(importRefs) THEN st
  ELSE SaveV3Refs(
         SaveRef(st, fid, [string |-> RefString(importRefs[k]),
                           custom |-> RefCustom(importRefs[k])]),
         fid, importRefs, k + 1)

RECURSIVE SaveV3Fragments(_, _, _, _, _, _)
\* extractImportV3Fragments and the saves of its result: one MarkovFragment
\* per item of the list, from item k on, with the given parent.
SaveV3Fragments(st, importFragments, startRoot, endRoot, entry, k) ==
  IF k > Len(importFragments) THEN st
  ELSE SaveV3Fragments(
         SaveV3Refs(
           SaveFragment(st, importFragments[k].words, startRoot, endRoot, entry),
           NextId(st.fragments), importFragments[k].refs, 1),
         importFragments, startRoot, endRoot, entry, k + 1)

RECURSIVE SaveV3Corpus(_, _, _, _)
\* saveImportV3Corpus: one CorpusEntry per key of the corpus object, from
\* entry k of Object.entries(importCorpus) on, with its fragments.
SaveV3Corpus(st, root, importCorpus, k) ==
  IF k > Len(importCorpus) THEN st
  ELSE SaveV3Corpus(
         SaveV3Fragments(SaveEntry(st, root, importCorpus[k].key),
                         importCorpus[k].fragments, NoRoot, NoRoot,
                         NextId(st.entries), 1),
         root, importCorpus, k + 1)

\* The payload object after the import: every ref has lost its "string" key.
DeleteStrings(data) ==
  LET stripped(fs) ==
        [k \in 1..Len(fs) |->
          [words |-> fs[k].words,
           refs |-> [j \in 1..Len(fs[k].refs) |-> DeleteString(fs[k].refs[j])]]]
  IN [options |-> data.options,
      startWords |-> stripped(data.startWords),
      endWords |-> stripped(data.endWords),
      corpus |-> [k \in 1..Len(data.corpus) |->
                   [key |-> data.corpus[k].key,
                    fragments |-> stripped(data.corpus[k].fragments)]]]

\* The rows of the given tables that a root owns: its entries, its start
\* and end fragments, the child fragments of its entries, and their
\* references.
OwnedRows(st, root) ==
  LET es == { e \in st.entries : e.markov = root }
      fs == { f \in st.fragments :
                \/ f.startWordMarkov = root
                \/ f.endWordMarkov = root
                \/ \E e \in es : e.id = f.corpusEntry }
  IN [entries |-> es, fragments |-> fs,
      refs |-> { r \in st.refs : \E f \in fs : f.id = r.fragment }]

\* A save that inserts the imported rows and leaves the rows the root
\* owned before attached to it.
SaveRootKeeping(st, before, root) ==
  [entries |-> st.entries, fragments |-> st.fragments, refs |-> st.refs]

\* MarkovRoot.save(this.db) with startWords, endWords and corpus set to the
\* imported rows: the rows the root owned before are replaced, removed with
\* what they own.
SaveRoot(st, before, root) ==
  [entries   |-> st.entries \ OwnedRows(before, root).entries,
   fragments |-> st.fragments \ OwnedRows(before, root).fragments,
   refs      |-> st.refs \ OwnedRows(before, root).refs]

\* No legacy-shape payload was built yet.
NoLegacy == [options |-> Undefined]

\* --------------------------------------------------------------- actions

\* What a call that returns nothing reports.
Done(op, err) == [op |-> op, err |-> err]

\* No call is under way and none has a report pending.
Idle == Done("none", "none")

\* new Markov(props): this.id = props?.id || '1', this.options =
\* assignIn(defaultOptions, props?.options); `ss` = 0 stands for no option.
Constructed(id, ss) ==
  [id |-> IF id = Undefined THEN "1" ELSE id,
   stateSize |-> IF ss = 0 THEN DefaultStateSize ELSE ss,
   db |-> NoRoot, dbStateSize |-> 0]


\* The addData calls that can be under way at once.
Callers == { 1, 2 }

\* The position and locals of an addData call: `data` the formatted list,
\* `k` the item, `phase` the region of buildCorpus, `pc` the round trip it
\* is about to make, `i` the index of the corpus loop, `entry` the
\* CorpusEntry found or saved, `obj` the MarkovFragment found or saved.
Call(pc, data, k, phase, i, entry, obj) ==
  [pc |-> pc, data |-> data, k |-> k, phase |-> phase, i |-> i,
   entry |-> entry, obj |-> obj]

\* The caller has not called addData yet.
NotCalled == Call("idle", <<>>, 0, "none", 0, NoEntry, 0)

\* The caller's addData call has returned.
Returned == Call("returned", <<>>, 0, "none", 0, NoEntry, 0)

\* The state after construction: new Markov(), not connected, empty store.
Init ==
  /\ options = {} /\ roots = {} /\ entries = {} /\ fragments = {} /\ refs = {}
  /\ inst = Constructed(Undefined, 0)
  /\ connected = FALSE
  /\ exported = NoExport
  /\ legacy = NoLegacy
  /\ out = Idle
  /\ used = 0
  /\ ingested = {}
  /\ running = [p \in Callers |-> NotCalled]


\* A connect that saves this.options for the root it found, too.
ConnectSavingOptions(id, ss) ==
  /\ out = Idle
  /\ ~connected
  /\ connected' = TRUE
  /\ LET this == Constructed(id, ss)
     IN /\ options' = options \cup
             { [id |-> NextId(options), stateSize |-> this.stateSize] }
        /\ roots' = { r \in roots : r.id # this.id } \cup
             { [id |-> this.id, options |-> NextId(options)] }
        /\ inst' = [this EXCEPT !.db = this.id, !.dbStateSize = this.stateSize]
  /\ out' = Idle
  /\ UNCHANGED << entries, fragments, refs, exported, legacy, used, ingested, running >>

\* new Markov({id, options: {stateSize}}) and its connect(): find the root
\* of this.id, or create it with this.options.
Connect(id, ss) ==
  /\ out = Idle
  /\ ~connected
  /\ connected' = TRUE
  /\ LET this  == Constructed(id, ss)
         found == { r \in roots : r.id = this.id }
     IN IF found # {}
          THEN /\ \E db \in found :
                    inst' = [this EXCEPT
                      !.db = db.id,
                      !.dbStateSize =
                        (CHOOSE o \in options : o.id = db.options).stateSize]
               /\ UNCHANGED << options, roots >>
          ELSE /\ options' = options \cup
                    { [id |-> NextId(options), stateSize |-> this.stateSize] }
               /\ roots' = roots \cup
                    { [id |-> this.id, options |-> NextId(options)] }
               /\ inst' = [this EXCEPT !.db = this.id,
                                       !.dbStateSize = this.stateSize]
  /\ out' = Idle
  /\ UNCHANGED << entries, fragments, refs, exported, legacy, used, ingested, running >>

\* connection.dropDatabase() followed by disconnect(), as the tests do it.
DropDatabase ==
  /\ out = Idle
  /\ connected
  /\ connected' = FALSE
  /\ options' = {} /\ roots' = {} /\ entries' = {} /\ fragments' = {} /\ refs' = {}
  /\ ingested' = {}
  /\ out' = Idle
  /\ UNCHANGED << inst, exported, legacy, used, running >>

\* disconnect().
Disconnect ==
  /\ out = Idle
  /\ connected
  /\ connected' = FALSE
  /\ out' = Idle
  /\ UNCHANGED << store, inst, exported, legacy, used, ingested, running >>

\* What addData reports: the error thrown ("none": it returned) and, as
\* history, whether every string of a non-empty rawData had been ingested
\* into this root before the call, and whether some element of rawData had
\* no "string" property (a bare string among objects, an object among bare
\* strings, an object without the property).
Added(err, known, lacking) ==
  [op |-> "addData", err |-> err, known |-> known, lacking |-> lacking]

\* addData(rawData), for every list rawData of elements of `items`.
AddData(items) ==
  /\ out = Idle
  /\ connected
  /\ \E n \in 0..(MaxItems - used) : \E rawData \in [1..n -> items] :
       /\ LET f == FormatData(rawData)
              known == /\ f.input # <<>>
                       /\ \A k \in 1..Len(f.input) :
                            /\ f.input[k].ok
                            /\ \E p \in ingested :
                                 p[1] = inst.db /\ p[2] = f.input[k].string
              lacking == \E k \in 1..n :
                           rawData[k].kind = "nostr" \/ rawData[k].kind # rawData[1].kind
          IN IF f.err # "none"
               THEN /\ out' = Added(f.err, FALSE, lacking)
                    /\ UNCHANGED << entries, fragments, refs, ingested >>
               ELSE \E b \in BuildCorpus(Tables, inst.db, inst.dbStateSize, f.input, 1) :
                    /\ entries' = b.st.entries
                    /\ fragments' = b.st.fragments
                    /\ refs' = b.st.refs
                    /\ out' = Added(b.err, known, lacking)
                    /\ ingested' = ingested \cup
                         { <<inst.db, f.input[k].string, f.input[k].custom>>
                           : k \in 1..b.done }
       /\ used' = used + Len(rawData)
  /\ UNCHANGED << options, roots, inst, connected, exported, legacy, running >>

\* A generate that saves the references of the Result it returns as new
\* rows.
GenerateSavingRefs ==
  /\ out = Idle
  /\ connected
  /\ \E arg \in MaxTriesOpts, filter \in Filters :
       \E o \in GenerateOutcomes(Tables, inst.db, arg, filter) :
         /\ out' = o
         /\ refs' = refs \cup { [r EXCEPT !.id = NextId(refs)] : r \in o.result.refs }
  /\ UNCHANGED << options, roots, entries, fragments, inst, connected,
                  exported, legacy, used, ingested, running >>

\* generate({maxTries, filter}).
Generate ==
  /\ out = Idle
  /\ connected
  /\ \E arg \in MaxTriesOpts, filter \in Filters :
       \E o \in GenerateOutcomes(Tables, inst.db, arg, filter) : out' = o
  /\ UNCHANGED << store, inst, connected, exported, legacy, used, ingested, running >>


\* generate({maxTries: 0, filter}).
GenerateZeroTries ==
  /\ out = Idle
  /\ connected
  /\ \E filter \in Filters :
       \E o \in GenerateOutcomes(Tables, inst.db, << 0 >>, filter) : out' = o
  /\ UNCHANGED << store, inst, connected, exported, legacy, used, ingested, running >>

\* export().
Export ==
  /\ out = Idle
  /\ connected
  /\ LET found == { r \in roots : r.id = inst.id }
     IN IF found = {}
          THEN /\ out' = Done("export", "EntityNotFound")
               /\ UNCHANGED exported
          ELSE /\ \E db \in found : exported' = ExportRoot(db)
               /\ out' = Done("export", "none")
  /\ UNCHANGED << store, inst, connected, legacy, used, ingested, running >>

\* What import reports and, as history, whether the root of data.id owned
\* no entry and no fragment when import was called.
Imported(intoEmpty) == [op |-> "import", err |-> "none", intoEmpty |-> intoEmpty]

\* An import that saves the rows of data whether or not a root with
\* data.id is stored.
ImportAlwaysSaves(data) ==
  /\ out = Idle
  /\ connected
  /\ data # NoExport
  /\   LET corpusFragments ==
                  UNION { ImportFragments(e.fragments, NoRoot, NoRoot, e.id)
                          : e \in data.corpus }
                allFragments ==
                  ImportFragments(data.startWords, inst.id, NoRoot, NoEntry)
                    \cup ImportFragments(data.endWords, NoRoot, inst.id, NoEntry)
                    \cup corpusFragments
                allRefs ==
                  ImportRefs(data.startWords) \cup ImportRefs(data.endWords)
                    \cup UNION { ImportRefs(e.fragments) : e \in data.corpus }
            IN /\ options' = Upsert(options, data.options)
               /\ fragments' = UpsertAll(fragments, allFragments)
               /\ refs' = UpsertAll(refs, allRefs)
               /\ entries' = UpsertAll(entries,
                    { [id |-> e.id, markov |-> inst.id, block |-> e.block]
                      : e \in data.corpus })
               /\ roots' = { r \in roots : r.id # inst.id }
                    \cup { [id |-> inst.id, options |-> data.options.id] }
               /\ inst' = [id |-> inst.id, stateSize |-> data.options.stateSize,
                           db |-> inst.id, dbStateSize |-> data.options.stateSize]
  /\ out' = Imported({ e \in entries : e.markov = data.id } = {}
                     /\ { f \in fragments : f.startWordMarkov = data.id
                                             \/ f.endWordMarkov = data.id } = {})
  /\ UNCHANGED << connected, exported, legacy, used, ingested, running >>

\* import(data), data having an id (the current shape).  When a root with
\* data.id is stored, preload returns it merged with data and nothing is
\* saved; otherwise the options, fragments, references and entries of data
\* are saved under a root with this.id.
Import(data) ==
  /\ out = Idle
  /\ connected
  /\ data # NoExport
  /\ IF \E r \in roots : r.id = data.id
       THEN /\ inst' = [id |-> data.id, stateSize |-> data.options.stateSize,
                        db |-> data.id, dbStateSize |-> data.options.stateSize]
            /\ UNCHANGED store
       ELSE LET corpusFragments ==
                  UNION { ImportFragments(e.fragments, NoRoot, NoRoot, e.id)
                          : e \in data.corpus }
                allFragments ==
                  ImportFragments(data.startWords, inst.id, NoRoot, NoEntry)
                    \cup ImportFragments(data.endWords, NoRoot, inst.id, NoEntry)
                    \cup corpusFragments
                allRefs ==
                  ImportRefs(data.startWords) \cup ImportRefs(data.endWords)
                    \cup UNION { ImportRefs(e.fragments) : e \in data.corpus }
            IN /\ options' = Upsert(options, data.options)
               /\ fragments' = UpsertAll(fragments, allFragments)
               /\ refs' = UpsertAll(refs, allRefs)
               /\ entries' = UpsertAll(entries,
                    { [id |-> e.id, markov |-> inst.id, block |-> e.block]
                      : e \in data.corpus })
               /\ roots' = { r \in roots : r.id # inst.id }
                    \cup { [id |-> inst.id, options |-> data.options.id] }
               /\ inst' = [id |-> inst.id, stateSize |-> data.options.stateSize,
                           db |-> inst.id, dbStateSize |-> data.options.stateSize]
  /\ out' = Imported({ e \in entries : e.markov = data.id } = {}
                     /\ { f \in fragments : f.startWordMarkov = data.id
                                             \/ f.endWordMarkov = data.id } = {})
  /\ UNCHANGED << connected, exported, legacy, used, ingested, running >>

\* What a legacy import reports and, as history, the payload as it was
\* passed.
ImportedV3(data) == [op |-> "importV3", err |-> "none", data |-> data]

\* import(data), data having no id (the legacy shape): new options, the
\* fragments, references and entries of data saved under this.id, and the
\* root saved with them.  The caller's payload object loses the "string"
\* keys of its refs.
ImportV3(data) ==
  /\ out = Idle
  /\ connected
  /\ data # NoLegacy
  /\ used < MaxItems
  /\ LET startWords == SaveV3Fragments(Tables, data.startWords, inst.id, NoRoot, NoEntry, 1)
         endWords   == SaveV3Fragments(startWords, data.endWords, NoRoot, inst.id, NoEntry, 1)
         corpus     == SaveV3Corpus(endWords, inst.id, data.corpus, 1)
         saved      == SaveRoot(corpus, Tables, inst.id)
     IN /\ options' = options \cup
              { [id |-> NextId(options), stateSize |-> data.options.stateSize] }
        /\ roots' = { r \in roots : r.id # inst.id }
              \cup { [id |-> inst.id, options |-> NextId(options)] }
        /\ entries' = saved.entries
        /\ fragments' = saved.fragments
        /\ refs' = saved.refs
  /\ inst' = [id |-> inst.id, stateSize |-> data.options.stateSize,
              db |-> inst.id, dbStateSize |-> data.options.stateSize]
  /\ legacy' = DeleteStrings(data)
  /\ used' = used + 1
  /\ out' = ImportedV3(data)
  /\ UNCHANGED << connected, exported, ingested, running >>

\* The caller takes what the call reported and goes on to its next call.
Return ==
  /\ out # Idle
  /\ out' = Idle
  /\ UNCHANGED << store, inst, connected, exported, legacy, used, ingested, running >>


\* ------------------------------------- addData, one store round trip a step

\* The words of the item a call is at.
ItemWords(c) == Split(c.data[c.k].string)

\* buildCorpus, "Corpus generation": curr and next for the loop index.
Curr(c) == Join(Slice(ItemWords(c), c.i, c.i + inst.dbStateSize))

Following(c) ==
  Join(Slice(ItemWords(c), c.i + inst.dbStateSize, c.i + inst.dbStateSize * 2))

RECURSIVE Advance(_, _)
\* Where a call goes on from loop index i without a round trip: to the
\* lookup of the next index whose next window is kept, or to the start
\* words of the next item, or to the end of the call.
Advance(c, i) ==
  LET at == [c EXCEPT !.phase = "corpus", !.i = i, !.entry = NoEntry, !.obj = 0]
  IN IF i < Len(ItemWords(c)) - 1
       THEN IF Following(at) = <<>>
                 \/ Len(Split(Following(at))) # inst.dbStateSize
              THEN Advance(c, i + 1)
              ELSE [at EXCEPT !.pc = "findBlock"]
     ELSE IF c.k < Len(c.data)
       THEN Call("findOld", c.data, c.k + 1, "start", 0, NoEntry, 0)
     ELSE [at EXCEPT !.pc = "done"]

\* The words of the start or end fragment of the item a call is at.
StartOrEndText(c) ==
  IF c.phase = "start"
    THEN Join(Slice(ItemWords(c), 0, inst.dbStateSize))
    ELSE Join(Slice(ItemWords(c), Len(ItemWords(c)) - inst.dbStateSize,
                    Len(ItemWords(c))))

\* Where a call goes on after the region it is in.
AfterRegion(c) ==
  IF c.phase = "start"
    THEN [c EXCEPT !.pc = "findOld", !.phase = "end", !.obj = 0]
  ELSE IF c.phase = "end" THEN Advance(c, 0)
  ELSE Advance(c, c.i + 1)


\* A builder that goes to the end words at once, without the start words.
AddDataBeginAtEndWords(p, items) ==
  /\ out = Idle
  /\ connected
  /\ running[p] = NotCalled
  /\ \E n \in 1..(MaxItems - used) : \E rawData \in [1..n -> items] :
       /\ FormatData(rawData).err = "none"
       /\ running' = [running EXCEPT ![p] =
            Call("findOld", FormatData(rawData).input, 1, "end", 0, NoEntry, 0)]
       /\ used' = used + n
  /\ UNCHANGED << store, inst, connected, exported, legacy, out, ingested >>

\* addData(rawData) is called: the data is formatted and buildCorpus is
\* about to make its first round trip.
AddDataBegin(p, items) ==
  /\ out = Idle
  /\ connected
  /\ running[p] = NotCalled
  /\ \E n \in 1..(MaxItems - used) : \E rawData \in [1..n -> items] :
       /\ FormatData(rawData).err = "none"
       /\ running' = [running EXCEPT ![p] =
            Call("findOld", FormatData(rawData).input, 1, "start", 0, NoEntry, 0)]
       /\ used' = used + n
  /\ UNCHANGED << store, inst, connected, exported, legacy, out, ingested >>

\* MarkovFragment.findOne({ startWordMarkov | endWordMarkov: this.db, words }).
FindOldStartOrEnd(p) ==
  /\ running[p].pc = "findOld"
  /\ LET c    == running[p]
         olds == { f \in fragments :
                     /\ f.words = StartOrEndText(c)
                     /\ IF c.phase = "start" THEN f.startWordMarkov = inst.db
                                             ELSE f.endWordMarkov = inst.db }
     IN IF olds = {}
          THEN running' = [running EXCEPT ![p] = [c EXCEPT !.pc = "saveFragment"]]
          ELSE \E old \in olds :
                 running' = [running EXCEPT ![p] =
                            [c EXCEPT !.pc = "findInputData", !.obj = old.id]]
  /\ UNCHANGED << store, inst, connected, exported, legacy, out, used, ingested >>

\* MarkovInputData.findOne({ fragment: oldStartObj | oldEndObj }).
FindInputData(p) ==
  /\ running[p].pc = "findInputData"
  /\ LET c == running[p]
     IN running' = [running EXCEPT ![p] =
          IF \E r \in refs : r.fragment = c.obj
            THEN AfterRegion(c)
            ELSE [c EXCEPT !.pc = "saveInputData"]]
  /\ UNCHANGED << store, inst, connected, exported, legacy, out, used, ingested >>

\* CorpusEntry.findOne({ markov: this.db, block: curr }).
FindBlock(p) ==
  /\ running[p].pc = "findBlock"
  /\ LET c      == running[p]
         blocks == { e \in entries : e.markov = inst.db /\ e.block = Curr(c) }
     IN IF blocks = {}
          THEN running' = [running EXCEPT ![p] = [c EXCEPT !.pc = "saveEntry"]]
          ELSE \E block \in blocks :
                 running' = [running EXCEPT ![p] =
                            [c EXCEPT !.pc = "findOldObj", !.entry = block.id]]
  /\ UNCHANGED << store, inst, connected, exported, legacy, out, used, ingested >>

\* MarkovFragment.findOne({ corpusEntry: block, words: next }).
FindOldObj(p) ==
  /\ running[p].pc = "findOldObj"
  /\ LET c    == running[p]
         olds == { f \in fragments :
                     f.corpusEntry = c.entry /\ f.words = Following(c) }
     IN IF olds = {}
          THEN running' = [running EXCEPT ![p] = [c EXCEPT !.pc = "saveFragment"]]
          ELSE \E oldObj \in olds :
                 running' = [running EXCEPT ![p] =
                            [c EXCEPT !.pc = "saveInputData", !.obj = oldObj.id]]
  /\ UNCHANGED << store, inst, connected, exported, legacy, out, used, ingested >>

\* A save of the entry that happens only if the store still has no entry
\* for the block: lookup and creation as one round trip.
SaveNewEntryIfAbsent(p) ==
  /\ running[p].pc = "saveEntry"
  /\ LET c      == running[p]
         blocks == { e \in entries : e.markov = inst.db /\ e.block = Curr(c) }
     IN IF blocks = {}
          THEN /\ entries' = SaveEntry(Tables, inst.db, Curr(c)).entries
               /\ running' = [running EXCEPT ![p] =
                    [c EXCEPT !.pc = "saveFragment", !.entry = NextId(entries)]]
          ELSE /\ UNCHANGED entries
               /\ \E block \in blocks :
                    running' = [running EXCEPT ![p] =
                      [c EXCEPT !.pc = "findOldObj", !.entry = block.id]]
  /\ UNCHANGED << options, roots, fragments, refs, inst, connected, exported,
                  legacy, out, used, ingested >>

\* CorpusEntry.save(entry), entry being new with block curr.
SaveNewEntry(p) ==
  /\ running[p].pc = "saveEntry"
  /\ LET c == running[p]
     IN /\ entries' = SaveEntry(Tables, inst.db, Curr(c)).entries
        /\ running' = [running EXCEPT ![p] =
             [c EXCEPT !.pc = "saveFragment", !.entry = NextId(entries)]]
  /\ UNCHANGED << options, roots, fragments, refs, inst, connected, exported,
                  legacy, out, used, ingested >>

\* MarkovFragment.save(fragment), fragment being new: a start fragment, an
\* end fragment or a child of the entry.
SaveNewFragment(p) ==
  /\ running[p].pc = "saveFragment"
  /\ LET c == running[p]
     IN /\ fragments' =
             (CASE c.phase = "start" ->
                     SaveFragment(Tables, StartOrEndText(c), inst.db, NoRoot, NoEntry)
                [] c.phase = "end" ->
                     SaveFragment(Tables, StartOrEndText(c), NoRoot, inst.db, NoEntry)
                [] c.phase = "corpus" ->
                     SaveFragment(Tables, Following(c), NoRoot, NoRoot, c.entry)
             ).fragments
        /\ running' = [running EXCEPT ![p] =
             [c EXCEPT !.pc = "saveInputData", !.obj = NextId(fragments)]]
  /\ UNCHANGED << options, roots, entries, refs, inst, connected, exported,
                  legacy, out, used, ingested >>

\* MarkovInputData.save(ref), the reference of the item on the fragment
\* found or saved; the region is over.
SaveInputData(p) ==
  /\ running[p].pc = "saveInputData"
  /\ LET c == running[p]
     IN /\ refs' = SaveRef(Tables, c.obj, c.data[c.k]).refs
        /\ running' = [running EXCEPT ![p] = AfterRegion(c)]
  /\ UNCHANGED << options, roots, entries, fragments, inst, connected,
                  exported, legacy, out, used, ingested >>

\* addData returns.
AddDataEnd(p) ==
  /\ running[p].pc = "done"
  /\ running' = [running EXCEPT ![p] = Returned]
  /\ ingested' = ingested \cup
       { << inst.db, running[p].data[k].string, running[p].data[k].custom >>
         : k \in 1..Len(running[p].data) }
  /\ UNCHANGED << store, inst, connected, exported, legacy, out, used >>

\* The sentence of the concurrent callers.
StepLines ==
  { Join(ws) : ws \in
      { <<<<"a">>, <<"b">>, <<"a">>>> } }

StepItems == [kind : {"obj"}, string : StepLines, custom : {Undefined}]

\* Concurrent builders: two callers each call addData once on one
\* instance, the calls interleaved at their store round trips.
NextSteps ==
  \/ \E id \in Ids, ss \in StateSizeOpts : Connect(id, ss)
  \/ \E p \in Callers : AddDataBegin(p, StepItems)
  \/ \E p \in Callers : FindOldStartOrEnd(p)
  \/ \E p \in Callers : FindInputData(p)
  \/ \E p \in Callers : FindBlock(p)
  \/ \E p \in Callers : FindOldObj(p)
  \/ \E p \in Callers : SaveNewEntry(p)
  \/ \E p \in Callers : SaveNewFragment(p)
  \/ \E p \in Callers : SaveInputData(p)
  \/ \E p \in Callers : AddDataEnd(p)

SpecSteps == Init /\ [][NextSteps]_vars

\* Building and generating: the calls of the builder and of the generator.
Next ==
  \/ \E id \in Ids, ss \in StateSizeOpts : Connect(id, ss)
  \/ Disconnect
  \/ AddData(RawItems)
  \/ Generate
  \/ Return

Spec == Init /\ [][Next]_vars

\* Exporting and importing: the calls of the builder, export, import and
\* the tests' dropDatabase.
NextIO ==
  \/ \E id \in Ids, ss \in StateSizeOpts : Connect(id, ss)
  \/ DropDatabase
  \/ AddData(IOItems)
  \/ Export
  \/ Import(exported)
  \/ Return

SpecIO == Init /\ [][NextIO]_vars

\* Reading: the calls of the builder with custom payloads, the generator
\* and export.
NextQuery ==
  \/ \E id \in Ids, ss \in StateSizeOpts : Connect(id, ss)
  \/ AddData(IOItems)
  \/ Generate
  \/ Export
  \/ Return

SpecQuery == Init /\ [][NextQuery]_vars

\* Legacy imports: connect, import of a legacy payload (a new one, or the
\* object of the last import again) and the generator.
NextLegacy ==
  \/ \E id \in Ids, ss \in StateSizeOpts : Connect(id, ss)
  \/ \E data \in V3Payloads \cup { legacy } : ImportV3(data)
  \/ Generate
  \/ Return

SpecLegacy == Init /\ [][NextLegacy]_vars



\* The items of the scenarios that mix addData with imports: objects with
\* a "string" property and no custom payload.
OptionsItems ==
  [kind : {"obj"}, string : { Join(<< <<"a">>, <<"b">>, <<"a">>, <<"b">> >>) },
   custom : { NoCustom }]

\* Options: instances constructed with and without a stateSize, the
\* builder, the generator, export and both shapes of import on one id.
NextOptions ==
  \/ \E id \in Ids, ss \in StateSizeOpts : Connect(id, ss)
  \/ Disconnect
  \/ AddData(OptionsItems)
  \/ Generate
  \/ Export
  \/ Import(exported)
  \/ \E data \in V3Payloads \cup { legacy } : ImportV3(data)
  \/ Return

SpecOptions == Init /\ [][NextOptions]_vars


\* The ids of two instances that share one store.
TwoIds == { "1", "2" }

\* The item the two instances add: the same sentence, with and without a
\* custom payload.
TwoRootsItems ==
  [kind : {"obj"}, string : { Join(<< <<"a">>, <<"b">>, <<"a">>, <<"b">> >>) },
   custom : Customs]

\* Two roots in one store: instances with different ids connect in turn,
\* add data and generate.
NextTwoRoots ==
  \/ \E id \in TwoIds, ss \in StateSizeOpts : Connect(id, ss)
  \/ Disconnect
  \/ AddData(TwoRootsItems)
  \/ Generate
  \/ Return

SpecTwoRoots == Init /\ [][NextTwoRoots]_vars


\* Sentences of one to five different words, and one whose last word is
\* the empty word a trailing space leaves.
SingleLines ==
  { Join(ws) : ws \in
      { <<<<"a">>>>,
        <<<<"a">>, <<"b">>>>,
        <<<<"a">>, <<"b">>, <<"c">>>>,
        <<<<"a">>, <<"b">>, <<"c">>, <<"d">>>>,
        <<<<"a">>, <<"b">>, <<"c">>, <<"d">>, <<"e">>>>,
        <<<<"a">>, <<"b">>, <<>>>> } }

SingleItems == [kind : {"str"}, string : SingleLines, custom : {Undefined}]

\* One sentence: a root built from sentences of different words, and the
\* generator.
NextSingle ==
  \/ \E id \in Ids, ss \in StateSizeOpts : Connect(id, ss)
  \/ AddData(SingleItems)
  \/ Generate
  \/ Return

SpecSingle == Init /\ [][NextSingle]_vars


\* maxTries: the builder and the generator called with maxTries omitted,
\* given, and given as 0.
NextZeroTries ==
  \/ \E id \in Ids, ss \in StateSizeOpts : Connect(id, ss)
  \/ AddData(IOItems)
  \/ Generate
  \/ GenerateZeroTries
  \/ Return

SpecZeroTries == Init /\ [][NextZeroTries]_vars

\* ------------------------------------------------------------------ claims

\* The entries, start fragments and end fragments the connected root owns.
OwnEntries == { e \in entries : e.markov = inst.db }

OwnStartWords == { f \in fragments : f.startWordMarkov = inst.db }

OwnEndWords == { f \in fragments : f.endWordMarkov = inst.db }

\* The last k words of a list of words (all of them when it has fewer).
LastWords(words, k) ==
  SubSeq(words, IF Len(words) > k THEN Len(words) - k + 1 ELSE 1, Len(words))

\* The first k words of a list of words (all of them when it has fewer).
FirstWords(words, k) ==
  SubSeq(words, 1, IF Len(words) > k THEN k ELSE Len(words))

\* C1: whenever generate returns a Result, the last stateSize words of
\* Result.string are the words of some end Fragment of the same Root.
C1_TrailingWindowIsEndFragment ==
  (out.op = "generate" /\ out.err = "none") =>
    \E f \in OwnEndWords :
      f.words = Join(LastWords(Split(out.result.string), inst.dbStateSize))

\* The number of tries a generate call asked for: maxTries, 10 when omitted.
RequestedTries == IF out.maxTries = <<>> THEN 10 ELSE out.maxTries[1]

\* C2: on a non-empty corpus, generate with a filter that always returns
\* false makes exactly N attempts (N = maxTries, 10 when omitted), then
\* fails with the exhausted error that names N tries; it returns no Result.
C2_RejectingFilterExhaustsAfterN ==
  (out.op = "generate" /\ out.filter = "reject" /\ OwnEntries # {}) =>
    /\ out.err = "Exhausted"
    /\ out.attempts = RequestedTries
    /\ out.reported = RequestedTries

\* C2, the case: an explicit maxTries, every attempt built a complete
\* sentence that the filter rejected, and generate failed.
C2_Witness ==
  /\ out.op = "generate" /\ out.filter = "reject" /\ out.err = "Exhausted"
  /\ out.maxTries # <<>>
  /\ out.filterCalls = out.maxTries[1]
  /\ OwnEntries # {}

\* C3: generate on a Root that owns no Entry fails with the empty-corpus
\* error without sampling a Fragment and without calling the filter,
\* whatever start and end Fragments the Root owns.
C3_NoEntriesIsEmptyCorpus ==
  (out.op = "generate" /\ OwnEntries = {}) =>
    /\ out.err = "EmptyCorpus"
    /\ out.attempts = 0
    /\ out.filterCalls = 0

\* C3, the case: generate was called with a filter on a Root that owns
\* start and end Fragments but no Entry.
C3_Witness ==
  /\ out.op = "generate" /\ out.err = "EmptyCorpus"
  /\ out.filter # "none"
  /\ OwnEntries = {}
  /\ OwnStartWords # {} /\ OwnEndWords # {}

\* The stateSize stored for a root: root.options.stateSize.
StateSizeOf(root) ==
  (CHOOSE o \in options : \E r \in roots : r.id = root /\ r.options = o.id).stateSize

\* The strings addData ingested into a root.
IngestedInto(root) == { p[2] : p \in { q \in ingested : q[1] = root } }

\* The start fragments and the end fragments of a root with given words.
StartFragments(root, words) ==
  { f \in fragments : f.startWordMarkov = root /\ f.words = words }

EndFragments(root, words) ==
  { f \in fragments : f.endWordMarkov = root /\ f.words = words }

\* C4: once a non-empty string with at least stateSize words was ingested,
\* the Root owns a start Fragment with its first stateSize words and an end
\* Fragment with its last stateSize words, whatever is ingested afterwards.
C4_StartAndEndFragmentsExist ==
  \A r \in roots : \A s \in IngestedInto(r.id) :
    LET words == Split(s)
        ss    == StateSizeOf(r.id)
    IN (s # <<>> /\ Len(words) >= ss) =>
         /\ StartFragments(r.id, Join(FirstWords(words, ss))) # {}
         /\ EndFragments(r.id, Join(LastWords(words, ss))) # {}

\* C4, the case: two different strings of at least stateSize words were
\* ingested, the later one by the addData call that just returned.
C4_Witness ==
  /\ out.op = "addData" /\ out.err = "none" /\ used >= 2
  /\ \E s, t \in IngestedInto(inst.db) :
       /\ s # t
       /\ Len(Split(s)) >= inst.dbStateSize
       /\ Len(Split(t)) > inst.dbStateSize

\* The windows of the chain loop at index i (0-based): curr is
\* W[i .. i+stateSize), next is W[i+stateSize .. i+2*stateSize).
CurrWindow(words, i, ss) ==
  SubSeq(words, i + 1, IF i + ss > Len(words) THEN Len(words) ELSE i + ss)

NextWindow(words, i, ss) ==
  SubSeq(words, i + ss + 1,
         IF i + 2 * ss > Len(words) THEN Len(words) ELSE i + 2 * ss)

\* The indices the chain loop visits.
ChainIndices(words) == 0..(Len(words) - 2)

\* The next window at index i has exactly stateSize words.
FullWindow(words, i, ss) == Len(NextWindow(words, i, ss)) = ss

\* The next window at index i has exactly stateSize words and its text is
\* not empty.
RecordedWindow(words, i, ss) ==
  FullWindow(words, i, ss) /\ Join(NextWindow(words, i, ss)) # <<>>

\* The root owns an Entry `curr` with a child Fragment `next`.
HasEdge(root, curr, next) ==
  \E e \in entries :
    /\ e.markov = root /\ e.block = curr
    /\ \E f \in fragments : f.corpusEntry = e.id /\ f.words = next

\* Some ingested string of the root has, at some index, a full and
\* non-empty next window `next` after the window `curr`.
EdgeIngested(root, curr, next) ==
  \E s \in IngestedInto(root) : \E i \in ChainIndices(Split(s)) :
    /\ RecordedWindow(Split(s), i, StateSizeOf(root))
    /\ Join(CurrWindow(Split(s), i, StateSizeOf(root))) = curr
    /\ Join(NextWindow(Split(s), i, StateSizeOf(root))) = next

\* Indices whose next window is empty or shorter than stateSize add
\* nothing: every Entry and every child Fragment comes from an index with a
\* full, non-empty next window.
OnlyIngestedEdges ==
  /\ \A e \in entries : \E f \in fragments : f.corpusEntry = e.id
  /\ \A f \in fragments : f.corpusEntry # NoEntry =>
       \E e \in entries :
         e.id = f.corpusEntry /\ EdgeIngested(e.markov, e.block, f.words)

\* C5, as stated: for every ingested string and every index i of the chain
\* loop whose next window has exactly stateSize words, the Root owns an
\* Entry for the window at i with a child Fragment for the next window; an
\* index whose next window is empty or shorter adds nothing.
C5_EveryFullWindowIsAnEdge ==
  /\ \A r \in roots : \A s \in IngestedInto(r.id) :
       \A i \in ChainIndices(Split(s)) :
         FullWindow(Split(s), i, StateSizeOf(r.id)) =>
           HasEdge(r.id, Join(CurrWindow(Split(s), i, StateSizeOf(r.id))),
                         Join(NextWindow(Split(s), i, StateSizeOf(r.id))))
  /\ OnlyIngestedEdges

\* C5, amended: the same for every index whose next window has exactly
\* stateSize words and a non-empty text; an index whose next window has an
\* empty text or fewer than stateSize words adds nothing.
C5_EveryRecordedWindowIsAnEdge ==
  /\ \A r \in roots : \A s \in IngestedInto(r.id) :
       \A i \in ChainIndices(Split(s)) :
         RecordedWindow(Split(s), i, StateSizeOf(r.id)) =>
           HasEdge(r.id, Join(CurrWindow(Split(s), i, StateSizeOf(r.id))),
                         Join(NextWindow(Split(s), i, StateSizeOf(r.id))))
  /\ OnlyIngestedEdges

\* C5, the case: an ingested string has an index with a recorded window (an
\* edge was stored) and an index whose next window is one empty word.
C5_Witness ==
  /\ out.op = "addData" /\ out.err = "none"
  /\ \E s \in IngestedInto(inst.db) : \E i, j \in ChainIndices(Split(s)) :
       /\ RecordedWindow(Split(s), i, inst.dbStateSize)
       /\ HasEdge(inst.db, Join(CurrWindow(Split(s), i, inst.dbStateSize)),
                            Join(NextWindow(Split(s), i, inst.dbStateSize)))
       /\ FullWindow(Split(s), j, inst.dbStateSize)
       /\ ~RecordedWindow(Split(s), j, inst.dbStateSize)

\* The distinct first and last stateSize-word windows ingested into a root.
FirstWindows(root) ==
  { Join(FirstWords(Split(s), StateSizeOf(root))) : s \in IngestedInto(root) }

LastWindows(root) ==
  { Join(LastWords(Split(s), StateSizeOf(root))) : s \in IngestedInto(root) }

\* C6: after any sequence of addData calls the store holds at most one Entry
\* per (root, block) and at most one Fragment per (parent, words); the
\* number of start Fragments of a Root is the number of distinct first
\* windows ingested, the number of end Fragments that of distinct last
\* windows.
C6_UniqueEntriesAndFragments ==
  /\ \A e1, e2 \in entries :
       (e1.markov = e2.markov /\ e1.block = e2.block) => e1 = e2
  /\ \A f1, f2 \in fragments :
       ( /\ f1.startWordMarkov = f2.startWordMarkov
         /\ f1.endWordMarkov = f2.endWordMarkov
         /\ f1.corpusEntry = f2.corpusEntry
         /\ f1.words = f2.words ) => f1 = f2
  /\ \A r \in roots :
       /\ Cardinality({ f \in fragments : f.startWordMarkov = r.id })
            = Cardinality(FirstWindows(r.id))
       /\ Cardinality({ f \in fragments : f.endWordMarkov = r.id })
            = Cardinality(LastWindows(r.id))

\* C6, the case: two strings with the same first window and different last
\* windows were ingested into a Root that owns Entries.
C6_Witness ==
  /\ out.op = "addData" /\ out.err = "none"
  /\ Cardinality(IngestedInto(inst.db)) = 2
  /\ Cardinality(FirstWindows(inst.db)) = 1
  /\ Cardinality(LastWindows(inst.db)) = 2
  /\ OwnEntries # {}

\* The number of Entries and of Fragments (start, end and child) a root
\* owns in the given tables.
EntryCount(es, root) == Cardinality({ e \in es : e.markov = root })

FragmentCount(es, fs, root) ==
  Cardinality({ f \in fs :
    \/ f.startWordMarkov = root
    \/ f.endWordMarkov = root
    \/ \E e \in es : e.markov = root /\ e.id = f.corpusEntry })

\* C7: an addData call whose strings were all ingested into the Root before
\* leaves the Root's number of Entries and number of Fragments unchanged.
C7_ReingestKeepsCounts ==
  [][ (out'.op = "addData" /\ out'.known) =>
        /\ EntryCount(entries', inst.db) = EntryCount(entries, inst.db)
        /\ FragmentCount(entries', fragments', inst.db)
             = FragmentCount(entries, fragments, inst.db) ]_vars

\* C7, the case: an addData call of already ingested strings returned, on
\* a Root that owns Entries and child Fragments.
C7_Witness ==
  /\ out.op = "addData" /\ out.known /\ out.err = "none"
  /\ OwnEntries # {}
  /\ \E s \in IngestedInto(inst.db) : Len(Split(s)) >= 2 * inst.dbStateSize

\* C8: no Fragment owns two References with the same original string: the
\* store holds at most one Reference per (fragment, string) pair.
C8_OneReferencePerFragmentAndString ==
  \A r1, r2 \in refs :
    (r1.fragment = r2.fragment /\ r1.string = r2.string) => r1 = r2

\* C9: for every ingested string there is exactly one start Fragment with
\* its first stateSize words and exactly one end Fragment with its last
\* stateSize words, and each owns a Reference to that string, also when
\* the Fragment is shared by two strings.
C9_SharedFragmentsOwnEveryReference ==
  \A r \in roots : \A s \in IngestedInto(r.id) :
    LET first == StartFragments(r.id, Join(FirstWords(Split(s), StateSizeOf(r.id))))
        last  == EndFragments(r.id, Join(LastWords(Split(s), StateSizeOf(r.id))))
    IN /\ Cardinality(first) = 1
       /\ Cardinality(last) = 1
       /\ \A f \in first \cup last :
            \E x \in refs : x.fragment = f.id /\ x.string = s

\* The strings and payloads of the references of a set of exported fragments.
ExportedRefs(fs) ==
  UNION { { <<f.words, x.string, x.custom>> : x \in f.refs } : f \in fs }

\* An exported graph without its ids: the Entry block texts, the Fragment
\* word-windows by parent, and the Reference strings and payloads by
\* fragment.
ExportedGraph(data) ==
  [ blocks     |-> { e.block : e \in data.corpus },
    startWords |-> { f.words : f \in data.startWords },
    endWords   |-> { f.words : f \in data.endWords },
    children   |-> UNION { { <<e.block, f.words>> : f \in e.fragments }
                           : e \in data.corpus },
    startRefs  |-> ExportedRefs(data.startWords),
    endRefs    |-> ExportedRefs(data.endWords),
    childRefs  |-> UNION { { <<e.block>> \o t : t \in ExportedRefs(e.fragments) }
                           : e \in data.corpus } ]

\* The strings and payloads of the stored references of a set of fragments.
StoredRefs(fs) ==
  UNION { { <<f.words, x.string, x.custom>>
            : x \in { y \in refs : y.fragment = f.id } } : f \in fs }

\* The graph a root owns in the store, without its ids.
StoredGraph(root) ==
  LET es == { e \in entries : e.markov = root }
      ss == { f \in fragments : f.startWordMarkov = root }
      ws == { f \in fragments : f.endWordMarkov = root }
      cs(e) == { f \in fragments : f.corpusEntry = e.id }
  IN [ blocks     |-> { e.block : e \in es },
       startWords |-> { f.words : f \in ss },
       endWords   |-> { f.words : f \in ws },
       children   |-> UNION { { <<e.block, f.words>> : f \in cs(e) } : e \in es },
       startRefs  |-> StoredRefs(ss),
       endRefs    |-> StoredRefs(ws),
       childRefs  |-> UNION { { <<e.block>> \o t : t \in StoredRefs(cs(e)) }
                              : e \in es } ]

\* C10: after export, clearing the store, connecting a fresh instance with
\* the same id and importing the exported value, the Root owns the Entry
\* block texts, Fragment word-windows and Reference strings and payloads
\* that were exported; its Entry count is non-zero when the exported graph
\* had Entries.
C10_ImportReproducesExport ==
  (out.op = "import" /\ out.intoEmpty) =>
    /\ StoredGraph(inst.db) = ExportedGraph(exported)
    /\ (exported.corpus # {} => { e \in entries : e.markov = inst.db } # {})

\* C12: addData fails with the invalid-input error whenever an element of
\* the list has no "string" property, also when bare strings and objects
\* are mixed and when the element is not the first one.
C12_LackingStringIsInvalidInput ==
  (out.op = "addData" /\ out.lacking) => out.err = "InvalidInput"

\* The value a legacy ref has under a key (NoString when it lacks the key)
\* and the object of its other keys (NoCustom when it has none).
ValueAt(ref, key) ==
  IF \E p \in ref : p[1] = key
    THEN (CHOOSE p \in ref : p[1] = key)[2]
    ELSE NoString

OtherKeys(ref, key) ==
  IF { p \in ref : p[1] # key } = {} THEN NoCustom
  ELSE { p \in ref : p[1] # key }

\* The stored fragment f was made from the legacy fragment v, the original
\* string of a ref being under `key`: same words, one Reference per ref,
\* each ref with a Reference of its string and its other keys.
MadeFrom(f, v, key) ==
  /\ f.words = v.words
  /\ Cardinality({ x \in refs : x.fragment = f.id }) = Len(v.refs)
  /\ \A j \in 1..Len(v.refs) :
       \E x \in refs :
         /\ x.fragment = f.id
         /\ x.string = ValueAt(v.refs[j], key)
         /\ x.custom = OtherKeys(v.refs[j], key)

\* The root owns one Entry per key of the legacy corpus, and the Entry of
\* a key one child Fragment per item of the key's list, made from it.
CorpusMadeFrom(root, data, key) ==
  /\ Cardinality({ e \in entries : e.markov = root }) = Len(data.corpus)
  /\ \A k \in 1..Len(data.corpus) :
       /\ Cardinality({ e \in entries :
                          e.markov = root /\ e.block = data.corpus[k].key }) = 1
       /\ \A e \in { x \in entries :
                        x.markov = root /\ x.block = data.corpus[k].key } :
            /\ Cardinality({ f \in fragments : f.corpusEntry = e.id })
                 = Len(data.corpus[k].fragments)
            /\ \A j \in 1..Len(data.corpus[k].fragments) :
                 \E f \in fragments :
                   /\ f.corpusEntry = e.id
                   /\ MadeFrom(f, data.corpus[k].fragments[j], key)

ReturnedChain == { f \in fragments : \E k \in 1..Len(out.arr) : out.arr[k] = f.id }

\* The last fragment row of the chain a generate call returned.
LastOfChain == { f \in fragments : f.id = out.arr[Len(out.arr)] }

\* C13: when generate returns a Result, Result.tries is the number of the
\* attempt that produced it, between 1 and maxTries; that attempt's chain
\* ended on an end Fragment and the filter accepted it, it is the first
\* such attempt (every earlier ended candidate was rejected) and the last
\* attempt made.
C13_FirstSuccessfulAttemptWins ==
  (out.op = "generate" /\ out.err = "none") =>
    /\ out.result.tries = out.attempts
    /\ 1 <= out.result.tries /\ out.result.tries <= RequestedTries
    /\ \A f \in LastOfChain : EndFragments(inst.db, f.words) # {}
    /\ out.filter # "reject"
    /\ out.filter = "second" => (out.result.tries >= 2 /\ out.filterCalls <= 2)

\* C13, the case: the first attempt ended and was rejected by the filter,
\* the second was accepted and returned, with maxTries allowing more.
C13_Witness ==
  /\ out.op = "generate" /\ out.err = "none"
  /\ out.filter = "second" /\ out.filterCalls = 2
  /\ out.result.tries = 2 /\ out.maxTries = <<>>

\* No chain of the root can end: no child Fragment of an Entry has the
\* words of an end Fragment of the root.
NoChainEnds ==
  \A f \in fragments : f.corpusEntry # NoEntry => EndFragments(inst.db, f.words) = {}

\* C14: generate calls the filter at most once per attempt and only on
\* candidates whose chain ended (never when no chain can end, never
\* without a filter); a filter that reads result.tries sees the attempt's
\* number; with a filter that always accepts, a generate that returns a
\* Result has called it exactly once.
C14_FilterCalledOncePerEndedCandidate ==
  out.op = "generate" =>
    /\ out.filterCalls <= out.attempts
    /\ out.filter = "none" => out.filterCalls = 0
    /\ NoChainEnds => out.filterCalls = 0
    /\ (out.err = "none" /\ out.filter = "second") => out.result.tries >= 2
    /\ (out.err = "none" /\ out.filter = "accept") => out.filterCalls = 1
    /\ (out.err = "none" /\ out.filter # "none") => out.filterCalls >= 1

\* C14, the case: with an accepting filter a Result was returned by an
\* attempt after the first, the earlier candidates not having ended.
C14_Witness ==
  /\ out.op = "generate" /\ out.err = "none"
  /\ out.filter = "accept" /\ out.filterCalls = 1
  /\ out.result.tries >= 2

\* C15: every Reference in Result.refs is a stored Reference of one of the
\* Fragments of the returned chain, and its string and custom payload are
\* those of one ingested item.
C15_ResultRefsComeFromIngestedItems ==
  (out.op = "generate" /\ out.err = "none") =>
    \A r \in out.result.refs :
      /\ r \in refs
      /\ \E f \in ReturnedChain : r.fragment = f.id
      /\ \E p \in ingested :
           p[1] = inst.db /\ p[2] = r.string /\ p[3] = r.custom

\* C15, the case: a Result was returned whose refs hold a Reference with a
\* custom payload and a Reference without one.
C15_Witness ==
  /\ out.op = "generate" /\ out.err = "none"
  /\ \E r1, r2 \in out.result.refs :
       r1.custom = "x" /\ r2.custom = Undefined

\* C16: no two References in the refs of a returned Result have the same
\* original string, even when several Fragments of the chain own a
\* Reference to it.
C16_ResultRefsUniqueByString ==
  (out.op = "generate" /\ out.err = "none") =>
    \A r1, r2 \in out.result.refs : r1.string = r2.string => r1 = r2

\* C20: a step that completes export or generate, with a Result or with an
\* error, leaves the Roots, Entries, Fragments and References of the store
\* (and the options rows) as they were.
C20_ExportAndGenerateOnlyRead ==
  [][ out'.op \in { "generate", "export" } => UNCHANGED store ]_vars

\* C20, the case: a graph with Entries was exported and a generate call on
\* it then failed after its attempts.
C20_Witness ==
  /\ out.op = "generate" /\ out.err = "Exhausted"
  /\ exported # NoExport
  /\ exported.corpus # {}
  /\ OwnEntries # {}

\* C17: generate on a Root that owns at least one Entry and no start
\* Fragment fails with the typed no-fragment error on the first attempt.
C17_NoStartFragmentsIsNoFragmentError ==
  (out.op = "generate" /\ OwnEntries # {} /\ OwnStartWords = {}) =>
    out.err = "NoFragment" /\ out.attempts = 1

\* The root's start (end) fragments are the items of a legacy list, each
\* made from its item.
ListMadeFrom(own, list, key) ==
  /\ Cardinality(own) = Len(list)
  /\ \A j \in 1..Len(list) : \E f \in own : MadeFrom(f, list[j], key)

\* The entries, the fragments and the references reachable from the
\* instance's root.
ReachableEntries == OwnEntries

ReachableFragments ==
  OwnStartWords \cup OwnEndWords
    \cup { f \in fragments : \E e \in OwnEntries : e.id = f.corpusEntry }

ReachableRefs ==
  { x \in refs : \E f \in ReachableFragments : f.id = x.fragment }

\* C18: a legacy-shape import into a Root id that already holds data
\* leaves the Root with exactly the Entries, start and end Fragments and
\* References of the payload; no Entry, Fragment or Reference reachable
\* from the Root before the import is reachable from it afterwards.
C18_LegacyImportReplacesRootData ==
  [][ (out'.op = "importV3" /\ ReachableEntries # {}) =>
        /\ CorpusMadeFrom(inst.db, out.data, "string")'
        /\ ListMadeFrom(OwnStartWords, out.data.startWords, "string")'
        /\ ListMadeFrom(OwnEndWords, out.data.endWords, "string")'
        /\ ReachableEntries \cap ReachableEntries' = {}
        /\ ReachableFragments \cap ReachableFragments' = {}
        /\ ReachableRefs \cap ReachableRefs' = {} ]_vars

\* C18, the case: a second legacy payload, with start and end words, was
\* imported into the root that held the data of the first.
C18_Witness ==
  /\ out.op = "importV3" /\ used = 2
  /\ Len(out.data.startWords) >= 1 /\ Len(out.data.endWords) >= 1
  /\ ReachableEntries # {} /\ ReachableRefs # {}

StoredStateSize(rs, os, id) ==
  (CHOOSE o \in os : \E r \in rs : r.id = id /\ r.options = o.id).stateSize

\* The step is an import that saves a root: a legacy import, or a
\* current-shape import whose id is not the id of a stored root.
SavingImport ==
  \/ out'.op = "importV3"
  \/ out'.op = "import" /\ ~ \E r \in roots : r.id = exported.id

\* C21, as stated: once a Root is stored, no connect, addData, generate,
\* export or import (current-shape or legacy) changes its stored stateSize.
C21_StoredStateSizeNeverChanges ==
  [][ \A r \in roots : (\E q \in roots' : q.id = r.id) =>
        StoredStateSize(roots', options', r.id)
          = StoredStateSize(roots, options, r.id) ]_vars

\* C21, amended: once a Root is stored, no connect, addData, generate,
\* export or current-shape import that reuses a stored Root changes its
\* stored stateSize; an import that saves the Root (a legacy import)
\* gives it the stateSize of the payload.
C21_OnlySavingImportSetsStateSize ==
  [][ /\ ~SavingImport =>
           \A r \in roots : (\E q \in roots' : q.id = r.id) =>
             StoredStateSize(roots', options', r.id)
               = StoredStateSize(roots, options, r.id)
      /\ out'.op = "importV3" =>
           StoredStateSize(roots', options', inst'.db)
             = out'.data.options.stateSize ]_vars

\* C21, the case: a legacy import gave the root a stateSize other than
\* the one it was stored with before.
C21_Witness ==
  /\ out.op = "importV3"
  /\ \E o \in options : o.stateSize # StoredStateSize(roots, options, inst.db)

\* C22: generate on a Root only follows Entries of that Root: every
\* Fragment appended to the returned chain is a child of an Entry the Root
\* owns, also when another Root has an Entry with the same block text.
C22_ChainFollowsOwnEntries ==
  (out.op = "generate" /\ out.err = "none") =>
    \A k \in 2..Len(out.arr) :
      \E f \in fragments : \E e \in OwnEntries :
        f.id = out.arr[k] /\ f.corpusEntry = e.id

\* The words of the fragment rows with the given ids, in order.
ChainWords(arr) ==
  [k \in 1..Len(arr) |-> (CHOOSE f \in fragments : f.id = arr[k]).words]

\* The returned chain starts with a start Fragment of the Root, and each
\* later Fragment is a child of an Entry whose block text is the words of
\* the Fragment before it.
ChainLinked ==
  /\ \E f \in OwnStartWords : f.id = out.arr[1]
  /\ \A k \in 2..Len(out.arr) :
       \E f \in fragments : \E e \in entries :
         /\ f.id = out.arr[k]
         /\ f.corpusEntry = e.id
         /\ e.block = ChainWords(out.arr)[k - 1]

TwinEntries ==
  { e \in entries :
      \E x \in entries : x.id # e.id /\ x.markov = e.markov /\ x.block = e.block }

TwinStartWords ==
  { f \in fragments :
      /\ f.startWordMarkov # NoRoot
      /\ \E x \in fragments :
           /\ x.id # f.id
           /\ x.startWordMarkov = f.startWordMarkov
           /\ x.words = f.words }

\* C24: find and create-if-absent are two round trips: a call whose lookup
\* found the (root, block) Entry, or the (parent, words) Fragment, absent
\* creates it whatever another call saved in between, so concurrent calls
\* can leave two Entries for one pair and two Fragments for one pair.
C24_CreateActsOnStaleLookup ==
  [][ \A p \in Callers :
        /\ (running[p].pc = "saveEntry" /\ running'[p] # running[p]) =>
             \E e \in entries' \ entries :
               /\ entries' = entries \cup { e }
               /\ e.markov = inst.db /\ e.block = Curr(running[p])
        /\ (running[p].pc = "saveFragment" /\ running'[p] # running[p]) =>
             \E f \in fragments' \ fragments :
               /\ fragments' = fragments \cup { f }
               /\ f.words = IF running[p].phase = "corpus"
                               THEN Following(running[p])
                               ELSE StartOrEndText(running[p]) ]_vars

\* C24, the case: the store holds two Entries for one (root, block) pair
\* and two start Fragments for one (root, words) pair.
C24_Witness ==
  TwinEntries # {} /\ TwinStartWords # {}

\* C25: in every store state that addData calls leave between their round
\* trips, a child Fragment with a Reference to a string s means that the
\* Root has a start Fragment for the first window of s and an end Fragment
\* for the last window of s.
C25_StartAndEndBeforeChain ==
  \A r \in refs : \A f \in fragments : \A e \in entries :
    (r.fragment = f.id /\ f.corpusEntry = e.id) =>
      /\ \E x \in fragments :
           /\ x.startWordMarkov = e.markov
           /\ x.words = Join(FirstWords(Split(r.string), StateSizeOf(e.markov)))
      /\ \E x \in fragments :
           /\ x.endWordMarkov = e.markov
           /\ x.words = Join(LastWords(Split(r.string), StateSizeOf(e.markov)))

\* C25, the case: a call is in the middle of the chain entries of an item,
\* having saved a child Fragment with a Reference for an earlier window.
C25_Witness ==
  \E p \in Callers :
    /\ running[p].pc = "findBlock" /\ running[p].i >= 1
    /\ \E r \in refs : \E f \in fragments :
         /\ r.fragment = f.id /\ f.corpusEntry # NoEntry
         /\ r.string = running[p].data[running[p].k].string

\* The Entry/child-Fragment relation of the root has a cycle of two
\* windows: a child of the Entry of x is y and a child of the Entry of y
\* is x.
HasCycle ==
  \E e1 \in OwnEntries : \E e2 \in OwnEntries :
    \E f1 \in fragments : \E f2 \in fragments :
      /\ f1.corpusEntry = e1.id /\ f1.words = e2.block
      /\ f2.corpusEntry = e2.id /\ f2.words = e1.block

\* C26: every generate call ends with a Result or an error, on graphs with
\* cycles too: it makes at most maxTries attempts, and a returned chain
\* has at most maxTries continuation Fragments after its start Fragment.
C26_GenerateIsBounded ==
  /\ (connected /\ out = Idle) =>
       \A arg \in MaxTriesOpts : \A filter \in Filters :
         GenerateOutcomes(Tables, inst.db, arg, filter) # {}
  /\ out.op = "generate" =>
       /\ out.err \in { "none", "EmptyCorpus", "Exhausted", "TypeError" }
       /\ out.attempts <= EffectiveMaxTries(out.maxTries)
       /\ Len(out.arr) <= EffectiveMaxTries(out.maxTries) + 1

\* C26, the case: on a graph with a cycle, generate with an explicit
\* maxTries returned a chain of maxTries + 1 Fragments.
C26_Witness ==
  /\ out.op = "generate" /\ out.err = "none" /\ HasCycle
  /\ out.maxTries # <<>>
  /\ Len(out.arr) = out.maxTries[1] + 1

RECURSIVE WordScore(_, _)
\* The number of words minus one of each window from the k-th on, summed.
WordScore(windows, k) ==
  IF k > Len(windows) THEN 0
  ELSE (Len(Split(windows[k])) - 1) + WordScore(windows, k + 1)

\* C27: the score of a returned chain is 0 for the start Fragment and
\* grows by the number of words of the child window minus one for each
\* continuation Fragment; with windows of stateSize words a chain of n
\* Fragments has the score (n - 1) * (stateSize - 1).
C27_ScoreCountsWords ==
  (out.op = "generate" /\ out.err = "none") =>
    /\ out.result.score = WordScore(ChainWords(out.arr), 2)
    /\ (\A k \in 2..Len(out.arr) :
           Len(Split(ChainWords(out.arr)[k])) = inst.dbStateSize) =>
         out.result.score = (Len(out.arr) - 1) * (inst.dbStateSize - 1)

\* C28: a returned Result has at least two Fragments, the start Fragment
\* and a continuation; a Root into which only strings of exactly
\* stateSize words were ingested, each a start and an end Fragment at
\* once, never gives a Result.
C28_ResultHasAContinuation ==
  /\ (out.op = "generate" /\ out.err = "none") => Len(out.arr) >= 2
  /\ (out.op = "generate"
        /\ \A s \in IngestedInto(inst.db) : Len(Split(s)) = inst.dbStateSize) =>
       out.err # "none"

\* C28, the cases: generate returned a Result from a Root that also holds
\* a string of exactly stateSize words, whose window is a start and an end
\* Fragment.
C28_Witness ==
  /\ out.op = "generate" /\ out.err = "none"
  /\ \E s \in IngestedInto(inst.db) :
       /\ Len(Split(s)) = inst.dbStateSize
       /\ \E f \in OwnStartWords : f.words = s
       /\ \E f \in OwnEndWords : f.words = s

\* The words of a list are pairwise different.
Distinct(words) ==
  \A i \in 1..Len(words) : \A j \in 1..Len(words) :
    words[i] = words[j] => i = j

\* What C29 says of generate for a sentence s: the sentence at the first
\* try when its number of words is k * stateSize with 2 <= k <=
\* maxTries + 1, the empty-corpus error below 2 * stateSize words, the
\* exhausted error otherwise.
SingleSentenceOutcome(s) ==
  LET n == Len(Split(s))
      k == n \div inst.dbStateSize
  IN IF n % inst.dbStateSize = 0 /\ 2 <= k
          /\ k <= EffectiveMaxTries(out.maxTries) + 1
       THEN out.err = "none" /\ out.result.string = s /\ out.result.tries = 1
     ELSE IF n < 2 * inst.dbStateSize
       THEN out.err = "EmptyCorpus"
     ELSE out.err = "Exhausted"

\* generate was called, with a filter that accepts everything or with
\* none, on a Root built by addData of the one string s.
BuiltFromOne(s) ==
  /\ out.op = "generate" /\ out.filter \in { "none", "accept" }
  /\ used = 1
  /\ IngestedInto(inst.db) = { s }

\* C29, as stated: for a Root built from one string of n pairwise
\* different words, generate returns exactly that string with tries = 1
\* if n = k * stateSize with 2 <= k <= maxTries + 1, and otherwise fails,
\* with the empty-corpus error when n < 2 * stateSize and with the
\* exhausted error when not.
C29_DistinctWordsSentence ==
  \A s \in SingleLines :
    (BuiltFromOne(s) /\ Distinct(Split(s))) => SingleSentenceOutcome(s)

\* C29, amended: the same for a string of n pairwise different words none
\* of which is empty (no leading, trailing or doubled space).
C29_DistinctNonEmptyWordsSentence ==
  \A s \in SingleLines :
    (BuiltFromOne(s) /\ Distinct(Split(s))
       /\ \A i \in 1..Len(Split(s)) : Split(s)[i] # <<>>) =>
      SingleSentenceOutcome(s)

\* C29, the case: a sentence of three windows was returned with maxTries
\* = 2, the largest number of windows that maxTries allows.
C29_Witness ==
  /\ out.op = "generate" /\ out.err = "none" /\ used = 1
  /\ out.maxTries = << 2 >> /\ Len(out.arr) = 3
  /\ \E s \in IngestedInto(inst.db) : Distinct(Split(s)) /\ out.result.string = s

\* C30: generate with maxTries = 0 behaves exactly like generate without
\* maxTries: the same outcomes, up to 10 attempts rather than none, and on
\* exhaustion 10 reported tries.
C30_ZeroMaxTriesIsDefault ==
  /\ (connected /\ out = Idle) =>
       \A filter \in Filters :
         { [o EXCEPT !.maxTries = <<>>]
           : o \in GenerateOutcomes(Tables, inst.db, << 0 >>, filter) }
           = GenerateOutcomes(Tables, inst.db, <<>>, filter)
  /\ (out.op = "generate" /\ out.maxTries = << 0 >>) =>
       /\ out.err = "Exhausted" =>
            out.reported = DefaultMaxTries /\ out.attempts = DefaultMaxTries
       /\ OwnEntries # {} => out.attempts >= 1

\* C30, the case: generate with maxTries = 0 ran out of tries on a Root
\* that has Entries.
C30_Witness ==
  /\ out.op = "generate" /\ out.maxTries = << 0 >>
  /\ out.err = "Exhausted" /\ OwnEntries # {}

\* The strings and payloads of the stored References.
RefContents == { << x.string, x.custom >> : x \in refs }

\* C31: a legacy-shape import leaves the payload object the caller passed
\* as it was, and importing the object the caller holds once more gives
\* References with the same strings and the same payloads as the import
\* before it.
C31_LegacyImportKeepsPayload ==
  [][(out = Idle /\ out'.op = "importV3" /\ out'.err = "none") =>
       /\ legacy' = out'.data
       /\ (out'.data = legacy => RefContents' = RefContents)]_vars

====
